---- MODULE Spec2Model ----
(***************************************************************************)
(* Model of lib/parser.go: the request-metadata parser chain.              *)
(*                                                                         *)
(* Strings whose content the code inspects (header values, metadata        *)
(* values, body bytes) are sequences of one-character strings.  Error      *)
(* messages and registry types are TLA+ strings.  A request body is a      *)
(* one-shot stream over a sequence of JSON lexemes; its bytes are the      *)
(* concatenation of the lexemes' texts.                                    *)
(***************************************************************************)
EXTENDS Integers, Sequences, FiniteSets, TLC

VARIABLES head, tail, heap, registered, regErr, pc, p, errs, req, orig,
          invoked, ret

vars == <<head, tail, heap, registered, regErr, pc, p, errs, req, orig,
          invoked, ret>>

(***************************************************************************)
(* Bounds of the model.                                                    *)
(***************************************************************************)
MaxChain == 3

MaxCmdLen == 3

(***************************************************************************)
(* Program constants.                                                      *)
(***************************************************************************)
registryTypeNpm == "npm"

registryTypeImage == "harbor"

NilNode == 0

(***************************************************************************)
(* Go's error values: nil, or an error carrying a message.                 *)
(***************************************************************************)
NilErr == [isNil |-> TRUE, msg |-> ""]

NewError(m) == [isNil |-> FALSE, msg |-> m]

(***************************************************************************)
(* package strings                                                         *)
(***************************************************************************)
Space == {" ", "\t", "\n", "\r"}

HasPrefix(s, prefix) ==
    /\ Len(s) >= Len(prefix)
    /\ SubSeq(s, 1, Len(prefix)) = prefix

Contains(s, substr) ==
    \E i \in 1..(Len(s) - Len(substr) + 1) :
        SubSeq(s, i, i + Len(substr) - 1) = substr

TrimPrefix(s, prefix) ==
    IF HasPrefix(s, prefix) THEN SubSeq(s, Len(prefix) + 1, Len(s)) ELSE s

TrimSpace(s) ==
    LET keep == {i \in 1..Len(s) : s[i] \notin Space}
    IN  IF keep = {} THEN <<>>
        ELSE LET lo == CHOOSE i \in keep : \A j \in keep : i <= j
                 hi == CHOOSE i \in keep : \A j \in keep : i >= j
             IN  SubSeq(s, lo, hi)

\* strings.Split(s, sep) for a one-character separator: every piece between
\* separators, empty pieces included; Split("", sep) is one empty piece.
RECURSIVE Split(_, _)
Split(s, sep) ==
    LET at == {i \in 1..Len(s) : s[i] = sep}
    IN  IF at = {} THEN <<s>>
        ELSE LET i == CHOOSE k \in at : \A j \in at : k <= j
             IN  <<SubSeq(s, 1, i - 1)>> \o Split(SubSeq(s, i + 1, Len(s)), sep)

\* strings.Join over error messages (TLA+ strings).
RECURSIVE Join(_, _)
Join(elems, sep) ==
    IF Len(elems) = 0 THEN ""
    ELSE IF Len(elems) = 1 THEN elems[1]
    ELSE elems[1] \o sep \o Join(Tail(elems), sep)

\* strconv.Itoa for a non-negative number: its decimal digits.
Digit(d) == <<"0", "1", "2", "3", "4", "5", "6", "7", "8", "9">>[d + 1]

RECURSIVE Itoa(_)
Itoa(n) == IF n < 10 THEN <<Digit(n)>> ELSE Itoa(n \div 10) \o <<Digit(n % 10)>>

(***************************************************************************)
(* JSON lexemes.  k is the kind of the lexeme, s its text (for a string,   *)
(* the text between the quotes).  "bad" is a byte that starts no lexeme.   *)
(***************************************************************************)
Punct(c) == [k |-> c, s |-> <<c>>]

Str(s) == [k |-> "string", s |-> s]

Num(s) == [k |-> "number", s |-> s]

Null == [k |-> "null", s |-> <<"n", "u", "l", "l">>]

Bad == [k |-> "bad", s |-> <<"x">>]

LexBytes(t) == IF t.k = "string" THEN <<"\"">> \o t.s \o <<"\"">> ELSE t.s

\* The bytes of a sequence of lexemes.
RECURSIVE Bytes(_)
Bytes(toks) ==
    IF toks = <<>> THEN <<>> ELSE LexBytes(Head(toks)) \o Bytes(Tail(toks))

(***************************************************************************)
(* encoding/json: the syntax check json.Unmarshal runs over the whole      *)
(* input, as a recursive-descent parse that also builds the value.         *)
(* A value is [t, s, m]: its type, its text (strings), its members         *)
(* (objects: <<[k, v], ...>>, arrays: the same with empty keys).           *)
(***************************************************************************)
JVal(t, s, m) == [t |-> t, s |-> s, m |-> m]

JOk(i, v) == [ok |-> TRUE, next |-> i, val |-> v]

JFail(i) == [ok |-> FALSE, next |-> i, val |-> JVal("null", <<>>, <<>>)]

RECURSIVE ParseValue(_, _), ParseMembers(_, _, _), ParseElements(_, _, _)
ParseValue(toks, i) ==
    IF i > Len(toks) THEN JFail(i)
    ELSE LET t == toks[i]
         IN  CASE t.k = "string" -> JOk(i + 1, JVal("string", t.s, <<>>))
               [] t.k \in {"number", "null", "true", "false"} ->
                      JOk(i + 1, JVal(t.k, t.s, <<>>))
               [] t.k = "{" ->
                      IF i + 1 <= Len(toks) /\ toks[i + 1].k = "}"
                      THEN JOk(i + 2, JVal("object", <<>>, <<>>))
                      ELSE ParseMembers(toks, i + 1, <<>>)
               [] t.k = "[" ->
                      IF i + 1 <= Len(toks) /\ toks[i + 1].k = "]"
                      THEN JOk(i + 2, JVal("array", <<>>, <<>>))
                      ELSE ParseElements(toks, i + 1, <<>>)
               [] OTHER -> JFail(i)

ParseMembers(toks, i, acc) ==
    IF i > Len(toks) \/ toks[i].k # "string" THEN JFail(i)
    ELSE IF i + 1 > Len(toks) \/ toks[i + 1].k # ":" THEN JFail(i + 1)
    ELSE LET v == ParseValue(toks, i + 2)
             acc2 == Append(acc, [k |-> toks[i].s, v |-> v.val])
         IN  IF ~v.ok THEN v
             ELSE IF v.next > Len(toks) THEN JFail(v.next)
             ELSE IF toks[v.next].k = "}"
                  THEN JOk(v.next + 1, JVal("object", <<>>, acc2))
             ELSE IF toks[v.next].k = ","
                  THEN ParseMembers(toks, v.next + 1, acc2)
             ELSE JFail(v.next)

ParseElements(toks, i, acc) ==
    LET v == ParseValue(toks, i)
        acc2 == Append(acc, [k |-> <<>>, v |-> v.val])
    IN  IF ~v.ok THEN v
        ELSE IF v.next > Len(toks) THEN JFail(v.next)
        ELSE IF toks[v.next].k = "]"
             THEN JOk(v.next + 1, JVal("array", <<>>, acc2))
        ELSE IF toks[v.next].k = ","
             THEN ParseElements(toks, v.next + 1, acc2)
        ELSE JFail(v.next)

\* The syntax error of the input, "" when it is valid JSON.
checkValid(toks) ==
    LET r == ParseValue(toks, 1)
    IN  IF r.ok /\ r.next = Len(toks) + 1 THEN ""
        ELSE IF r.next > Len(toks) THEN "unexpected end of JSON input"
        ELSE "invalid character"

(***************************************************************************)
(* encoding/json: decoding a value into npmPackMeta.  A key selects a      *)
(* field when it equals the field's name up to letter case; null leaves    *)
(* the field as it is; a value of the wrong type is a type error, and the  *)
(* decoding of the other members goes on.                                  *)
(***************************************************************************)
ToLower(c) ==
    CASE c = "D" -> "d" [] c = "I" -> "i" [] c = "S" -> "s" [] c = "T" -> "t"
      [] c = "A" -> "a" [] c = "G" -> "g" [] c = "L" -> "l" [] c = "E" -> "e"
      [] OTHER -> c

EqualFold(a, b) ==
    /\ Len(a) = Len(b)
    /\ \A i \in 1..Len(a) : ToLower(a[i]) = ToLower(b[i])

KeyDistTags == <<"d", "i", "s", "t", "-", "t", "a", "g", "s">>

KeyLatest == <<"l", "a", "t", "e", "s", "t">>

\* The zero value of npmPackMeta.
npmPackMeta == [Tags |-> [Latest |-> <<>>]]

DecodeString(v, cur) ==
    CASE v.t = "string" -> [val |-> v.s, bad |-> FALSE]
      [] v.t = "null" -> [val |-> cur, bad |-> FALSE]
      [] OTHER -> [val |-> cur, bad |-> TRUE]

RECURSIVE DecodeTagsMembers(_, _, _)
DecodeTagsMembers(m, i, cur) ==
    IF i > Len(m) THEN [val |-> cur, bad |-> FALSE]
    ELSE LET r == IF EqualFold(m[i].k, KeyLatest)
                  THEN DecodeString(m[i].v, cur.Latest)
                  ELSE [val |-> cur.Latest, bad |-> FALSE]
             rest == DecodeTagsMembers(m, i + 1, [Latest |-> r.val])
         IN  [val |-> rest.val, bad |-> r.bad \/ rest.bad]

DecodeTags(v, cur) ==
    CASE v.t = "object" -> DecodeTagsMembers(v.m, 1, cur)
      [] v.t = "null" -> [val |-> cur, bad |-> FALSE]
      [] OTHER -> [val |-> cur, bad |-> TRUE]

RECURSIVE DecodeMetaMembers(_, _, _)
DecodeMetaMembers(m, i, cur) ==
    IF i > Len(m) THEN [val |-> cur, bad |-> FALSE]
    ELSE LET r == IF EqualFold(m[i].k, KeyDistTags)
                  THEN DecodeTags(m[i].v, cur.Tags)
                  ELSE [val |-> cur.Tags, bad |-> FALSE]
             rest == DecodeMetaMembers(m, i + 1, [Tags |-> r.val])
         IN  [val |-> rest.val, bad |-> r.bad \/ rest.bad]

DecodeMeta(v, cur) ==
    CASE v.t = "object" -> DecodeMetaMembers(v.m, 1, cur)
      [] v.t = "null" -> [val |-> cur, bad |-> FALSE]
      [] OTHER -> [val |-> cur, bad |-> TRUE]

\* json.Unmarshal(buf, &npmPackMeta{}): the error and the struct.
Unmarshal(buf) ==
    LET syntax == checkValid(buf)
    IN  IF syntax # "" THEN [err |-> NewError(syntax), v |-> npmPackMeta]
        ELSE LET d == DecodeMeta(ParseValue(buf, 1).val, npmPackMeta)
             IN  [err |-> IF d.bad THEN NewError("json: cannot unmarshal")
                          ELSE NilErr,
                  v |-> d.val]

(***************************************************************************)
(* net/http: the request.  Header maps a key to its value, URL holds the   *)
(* path and the query, Body is a one-shot stream: data is what the stream  *)
(* carries, pos how many lexemes were read, broken whether a read fails.   *)
(***************************************************************************)
HeaderGet(h, key) == IF key \in DOMAIN h THEN h[key] ELSE <<>>

HeaderSet(h, key, value) ==
    [k \in DOMAIN h \cup {key} |-> IF k = key THEN value ELSE h[k]]

URLString(u) ==
    IF u.RawQuery = <<>> THEN u.Path ELSE u.Path \o <<"?">> \o u.RawQuery

\* ioutil.ReadAll: what is left of the stream, and the stream after the read.
ReadAll(body) ==
    [buf  |-> SubSeq(body.data, body.pos + 1, Len(body.data)),
     err  |-> IF body.broken THEN NewError("unexpected EOF") ELSE NilErr,
     body |-> [body EXCEPT !.pos = Len(body.data)]]

\* ioutil.NopCloser(bytes.NewBuffer(buf))
NewBuffer(buf) == [data |-> buf, pos |-> 0, broken |-> FALSE]

(***************************************************************************)
(* RequestMeta: its zero value, and what a parser returns: the meta, the   *)
(* error, and the request as the parser leaves it.                         *)
(***************************************************************************)
RequestMeta == [RegistryType |-> "", HasHit |-> FALSE, Metadata |-> <<>>]

Returns(r, meta, err) == [req |-> r, meta |-> meta, err |-> err]

NpmMarker == <<"n", "p", "m">>

CmdPublish == <<"p", "u", "b", "l", "i", "s", "h">>

\* IsNpmClient looking at the wrong thing: any client that sends a
\* User-Agent.
IsNpmClientAnyAgent(r) == Len(HeaderGet(r.Header, "User-Agent")) > 0

\* The request carries the npm marker in its User-Agent.
IsNpmClient(r) == Contains(HeaderGet(r.Header, "User-Agent"), NpmMarker)

\* Reframe that sets the lengths and leaves the drained body in place.
ReframeNoBody(r, buf) ==
    [r EXCEPT
        !.ContentLength = Len(Bytes(buf)),
        !.Header = HeaderSet(@, "Content-Length", Itoa(Len(Bytes(buf))))]

\* The request with the bytes read from its body installed as a new body.
Reframe(r, buf) ==
    [r EXCEPT
        !.Body = NewBuffer(buf),
        !.ContentLength = Len(Bytes(buf)),
        !.Header = HeaderSet(@, "Content-Length", Itoa(Len(Bytes(buf))))]

\* Publish that drops the error of json.Unmarshal.
PublishIgnoreError(r, meta) ==
    LET rd == ReadAll(r.Body)
        read == [r EXCEPT !.Body = rd.body]
        npmMetaJSON == Unmarshal(rd.buf)
    IN  IF ~rd.err.isNil THEN Returns(read, RequestMeta, rd.err)
        ELSE Returns(Reframe(read, rd.buf),
                     [meta EXCEPT !.Metadata.extra = npmMetaJSON.v.Tags.Latest],
                     NilErr)

\* Publish that re-frames the body and keeps extra as it was.
PublishKeepExtra(r, meta) ==
    LET rd == ReadAll(r.Body)
        read == [r EXCEPT !.Body = rd.body]
        npmMetaJSON == Unmarshal(rd.buf)
    IN  IF ~rd.err.isNil THEN Returns(read, RequestMeta, rd.err)
        ELSE IF ~npmMetaJSON.err.isNil
             THEN Returns(read, RequestMeta, npmMetaJSON.err)
        ELSE Returns(Reframe(read, rd.buf), meta, NilErr)

\* The publish branch: read the body, take extra from the manifest.
Publish(r, meta) ==
    LET rd == ReadAll(r.Body)
        read == [r EXCEPT !.Body = rd.body]
        npmMetaJSON == Unmarshal(rd.buf)
    IN  IF ~rd.err.isNil THEN Returns(read, RequestMeta, rd.err)
        ELSE IF ~npmMetaJSON.err.isNil
             THEN Returns(read, RequestMeta, npmMetaJSON.err)
        ELSE Returns(Reframe(read, rd.buf),
                     [meta EXCEPT !.Metadata.extra = npmMetaJSON.v.Tags.Latest],
                     NilErr)

\* NpmParser without the check that the invocation string is not empty.
NpmParserNoCmdCheck(r) ==
    LET npmCmd == HeaderGet(r.Header, "Referer")
        command == TrimSpace(Split(npmCmd, " ")[1])
        meta == [RegistryType |-> registryTypeNpm,
                 HasHit |-> TRUE,
                 Metadata |->
                     [command |-> command,
                      path |-> URLString(r.URL),
                      extra |-> TrimSpace(TrimPrefix(npmCmd, command)),
                      session |-> HeaderGet(r.Header, "Npm-Session")]]
    IN  IF IsNpmClient(r)
        THEN IF command = CmdPublish
             THEN Publish(r, meta)
             ELSE Returns(r, meta, NilErr)
        ELSE Returns(r, RequestMeta, NilErr)

\* NpmParser that reads the body for every command.
NpmParserReadsBody(r) ==
    LET npmCmd == HeaderGet(r.Header, "Referer")
        command == TrimSpace(Split(npmCmd, " ")[1])
        meta == [RegistryType |-> registryTypeNpm,
                 HasHit |-> TRUE,
                 Metadata |->
                     [command |-> command,
                      path |-> URLString(r.URL),
                      extra |-> TrimSpace(TrimPrefix(npmCmd, command)),
                      session |-> HeaderGet(r.Header, "Npm-Session")]]
    IN  IF IsNpmClient(r) /\ Len(npmCmd) > 0
        THEN IF command = CmdPublish
             THEN Publish(r, meta)
             ELSE Returns([r EXCEPT !.Body = ReadAll(r.Body).body], meta, NilErr)
        ELSE Returns(r, RequestMeta, NilErr)

NpmParser(r) ==
    LET npmCmd == HeaderGet(r.Header, "Referer")
        commands == Split(npmCmd, " ")
        command == TrimSpace(commands[1])
        meta == [RegistryType |-> registryTypeNpm,
                 HasHit |-> TRUE,
                 Metadata |->
                     [command |-> command,
                      path |-> URLString(r.URL),
                      extra |-> TrimSpace(TrimPrefix(npmCmd, command)),
                      session |-> HeaderGet(r.Header, "Npm-Session")]]
    IN  IF IsNpmClient(r) /\ Len(npmCmd) > 0
        THEN IF command = CmdPublish
             THEN Publish(r, meta)
             ELSE Returns(r, meta, NilErr)
        ELSE Returns(r, RequestMeta, NilErr)

\* HarborParser with the hit flag forgotten.
HarborParserNoHit(r) ==
    Returns(r,
            [RegistryType |-> registryTypeImage, HasHit |-> FALSE,
             Metadata |-> <<>>],
            NilErr)

HarborParser(r) ==
    Returns(r,
            [RegistryType |-> registryTypeImage, HasHit |-> TRUE,
             Metadata |-> <<>>],
            NilErr)

(***************************************************************************)
(* Parser values.  Besides the two parsers of the package, a chain may     *)
(* hold any function of the Parser type; four stand for the cases Parse    *)
(* tells apart: one that declines, one that matches, one that fails, and   *)
(* one that fails while its meta says HasHit.                              *)
(***************************************************************************)
NilParser == "nil"

DeclineParser(r) == Returns(r, RequestMeta, NilErr)

MatchParser(r) ==
    Returns(r,
            [RegistryType |-> "custom", HasHit |-> TRUE, Metadata |-> <<>>],
            NilErr)

FailParser(r) == Returns(r, RequestMeta, NewError("cannot parse"))

FailHitParser(r) ==
    Returns(r,
            [RegistryType |-> "broken", HasHit |-> TRUE, Metadata |-> <<>>],
            NewError("half parsed"))

Parsers ==
    {"NpmParser", "HarborParser", "DeclineParser", "MatchParser",
     "FailParser", "FailHitParser"}

\* p.parser(req)
Call(parser, r) ==
    CASE parser = "NpmParser" -> NpmParser(r)
      [] parser = "HarborParser" -> HarborParser(r)
      [] parser = "DeclineParser" -> DeclineParser(r)
      [] parser = "MatchParser" -> MatchParser(r)
      [] parser = "FailParser" -> FailParser(r)
      [] parser = "FailHitParser" -> FailHitParser(r)

(***************************************************************************)
(* ParserChain: head and tail point into the heap of parserWrapper nodes   *)
(* (node i is heap[i]; NilNode is the nil pointer).  Nodes that Init       *)
(* unlinks are unreachable and are dropped from the heap.                  *)
(***************************************************************************)
ParserChain == [head |-> NilNode, tail |-> NilNode, heap |-> <<>>]

parserWrapper(parser, next) == [parser |-> parser, next |-> next]

\* Register without the nil check.
RegisterNoNilCheck(c, parser) ==
    LET new == Len(c.heap) + 1
    IN  IF c.head = NilNode
        THEN [pc |-> [head |-> new, tail |-> new,
                      heap |-> Append(c.heap, [parser |-> parser, next |-> NilNode])],
              err |-> NilErr]
        ELSE [pc |-> [head |-> c.head, tail |-> new,
                      heap |-> Append([c.heap EXCEPT ![c.tail].next = new],
                                      [parser |-> parser, next |-> NilNode])],
              err |-> NilErr]

\* Register that links the new node and leaves tail where it was.
RegisterTailStuck(c, parser) ==
    IF parser = NilParser
    THEN [pc |-> c, err |-> NewError("nil parser")]
    ELSE LET new == Len(c.heap) + 1
         IN  IF c.head = NilNode
             THEN [pc |-> [head |-> new, tail |-> new,
                           heap |-> Append(c.heap, [parser |-> parser, next |-> NilNode])],
                   err |-> NilErr]
             ELSE [pc |-> [head |-> c.head, tail |-> c.tail,
                           heap |-> Append([c.heap EXCEPT ![c.tail].next = new],
                                           [parser |-> parser, next |-> NilNode])],
                   err |-> NilErr]

\* Register: the chain after the call, and the error returned.
Register(c, parser) ==
    IF parser = NilParser
    THEN [pc |-> c, err |-> NewError("nil parser")]
    ELSE LET new == Len(c.heap) + 1
         IN  IF c.head = NilNode
             THEN [pc |-> [head |-> new, tail |-> new,
                           heap |-> Append(c.heap, parserWrapper(parser, NilNode))],
                   err |-> NilErr]
             ELSE [pc |-> [head |-> c.head, tail |-> new,
                           heap |-> Append([c.heap EXCEPT ![c.tail].next = new],
                                           parserWrapper(parser, NilNode))],
                   err |-> NilErr]

\* Init without the reset of head and tail.
ChainInitNoReset(c) ==
    LET r1 == Register(c, "NpmParser")
    IN  IF ~r1.err.isNil THEN r1 ELSE Register(r1.pc, "HarborParser")

\* Init: the chain after the call, and the error returned.
ChainInit(c) ==
    LET r1 == Register(ParserChain, "NpmParser")
    IN  IF ~r1.err.isNil THEN r1 ELSE Register(r1.pc, "HarborParser")

\* The parsers of the chain in the order Parse walks them.
RECURSIVE Walk(_, _, _)
Walk(c, node, fuel) ==
    IF node = NilNode \/ fuel = 0 THEN <<>>
    ELSE <<c.heap[node].parser>> \o Walk(c, c.heap[node].next, fuel - 1)

chain == [head |-> head, tail |-> tail, heap |-> heap]

(***************************************************************************)
(* The requests Parse is called with.                                      *)
(***************************************************************************)
NoHeader == [k \in {} |-> <<>>]

Hdr(key, value) == [k \in {key} |-> value]

UserAgents ==
    {NoHeader,
     Hdr("User-Agent", <<"n", "p", "m", "/", "6">>),
     Hdr("User-Agent", <<"y", "a", "r", "n", " ", "n", "p", "m", "/", "?">>),
     Hdr("User-Agent", <<"n", "p">>),
     Hdr("User-Agent", <<"n", "m", "p">>),
     Hdr("User-Agent", <<"N", "P", "M">>),
     Hdr("User-Agent", <<"c", "u", "r", "l">>)}

NpmAgent == Hdr("User-Agent", <<"n", "p", "m", "/", "6">>)

CmdInstall ==
    <<"i", "n", "s", "t", "a", "l", "l", " ", "s", "o", "m", "e", "-", "p",
      "k", "g", " ", "-", "-", "s", "a", "v", "e">>

\* Invocation strings whose command is, or nearly is, "publish".
PublishCmds ==
    {CmdPublish,
     CmdPublish \o <<" ", "p", "k", "g">>,
     CmdPublish \o <<" ", " ", "p", "k", "g", " ">>,
     <<"\t">> \o CmdPublish,
     <<" ">> \o CmdPublish,
     CmdPublish \o <<"\t", "p", "k", "g">>,
     CmdPublish \o <<"x">>}

\* Every invocation string of at most MaxCmdLen characters over a letter,
\* the space and the tab.
ShortCmds == UNION {[1..k -> {"i", " ", "\t"}] : k \in 1..MaxCmdLen}

Version == <<"2", ".", "3", ".", "1">>

Manifest ==
    <<Punct("{"), Str(KeyDistTags), Punct(":"), Punct("{"), Str(KeyLatest),
      Punct(":"), Str(Version), Punct("}"), Punct("}")>>

\* Bodies that parse as a manifest.
GoodBodies ==
    {Manifest,
     <<Null>>,
     <<Punct("{"), Punct("}")>>,
     <<Punct("{"), Str(<<"n", "a", "m", "e">>), Punct(":"), Str(<<"p">>),
       Punct(","), Str(KeyDistTags), Punct(":"), Punct("{"), Str(KeyLatest),
       Punct(":"), Str(<<"1">>), Punct(","), Str(KeyLatest), Punct(":"),
       Str(Version), Punct("}"), Punct("}")>>,
     <<Punct("{"), Str(<<"D", "i", "s", "t", "-", "T", "a", "g", "s">>),
       Punct(":"), Punct("{"), Str(KeyLatest), Punct(":"), Str(<<"1">>),
       Punct("}"), Punct("}")>>,
     <<Punct("{"), Str(<<"t", "a", "g", "s">>), Punct(":"), Punct("["),
       Num(<<"1">>), Punct(","), Null, Punct("]"), Punct("}")>>}

\* Bodies that do not: empty, not JSON, cut short, of the wrong type.
BadBodies ==
    {<<>>,
     <<Bad>>,
     <<Punct("{"), Str(KeyDistTags), Punct(":")>>,
     <<Punct("{"), Punct("}"), Bad>>,
     <<Punct("["), Punct("]")>>,
     <<Punct("{"), Str(KeyDistTags), Punct(":"), Punct("{"), Str(KeyLatest),
       Punct(":"), Num(<<"1">>), Punct("}"), Punct("}")>>,
     <<Punct("{"), Str(KeyDistTags), Punct(":"), Str(Version), Punct("}")>>}

Bodies == GoodBodies \cup BadBodies

URLs ==
    {[Path |-> <<"/", "p", "k", "g">>, RawQuery |-> <<>>],
     [Path |-> <<"/", "p", "k", "g">>, RawQuery |-> <<"w", "=", "1">>]}

\* An inbound request.  known: the length of the body was announced
\* (Content-Length), else it is unknown (-1, no header).
NewRequest(header, url, data, known, broken) ==
    [Header |-> IF known
                THEN HeaderSet(header, "Content-Length", Itoa(Len(Bytes(data))))
                ELSE header,
     URL |-> url,
     Body |-> [data |-> data, pos |-> 0, broken |-> broken],
     ContentLength |-> IF known THEN Len(Bytes(data)) ELSE 0 - 1]

PlainURL == [Path |-> <<"/", "p", "k", "g">>, RawQuery |-> <<>>]

Session == Hdr("Npm-Session", <<"s", "1">>)

\* Any client, with and without an invocation string.
AgentRequests ==
    {NewRequest(ua @@ ref, PlainURL, Manifest, TRUE, FALSE) :
        ua \in UserAgents,
        ref \in {NoHeader, Hdr("Referer", CmdInstall), Hdr("Referer", CmdPublish)}}
    \cup
    {NewRequest(NpmAgent @@ Hdr("Referer", c), u, Manifest, TRUE, FALSE) :
        c \in {CmdInstall, CmdPublish}, u \in URLs}

\* The npm client, every invocation string.
CommandRequests ==
    {NewRequest(NpmAgent @@ Hdr("Referer", c) @@ s, PlainURL, b, TRUE, FALSE) :
        c \in ShortCmds \cup PublishCmds \cup {CmdInstall},
        s \in {Session},
        b \in {Manifest}}
    \cup
    {NewRequest(NpmAgent @@ Hdr("Referer", c), PlainURL, <<Bad>>, FALSE, FALSE) :
        c \in PublishCmds}

\* The npm client publishing, every body.
PublishRequests ==
    {NewRequest(NpmAgent @@ Hdr("Referer", CmdPublish) @@ s, PlainURL, b, k, FALSE) :
        s \in {NoHeader, Session}, b \in Bodies, k \in BOOLEAN}
    \cup
    {NewRequest(NpmAgent @@ Hdr("Referer", CmdPublish), PlainURL, b, TRUE, TRUE) :
        b \in {Manifest, <<>>}}

Requests == AgentRequests \cup CommandRequests \cup PublishRequests

\* The request variable outside a call.
NoRequest == NewRequest(NoHeader, PlainURL, <<>>, FALSE, FALSE)

NoReturn == [meta |-> RequestMeta, err |-> NilErr]

(***************************************************************************)
(* The program: one client that builds the chain with Init and Register    *)
(* and calls Parse, one call at a time.  Parse is followed step by step:   *)
(* pc is "idle" outside a call, "loop" at the head of the for loop and     *)
(* "returned" once the call has returned <<ret.meta, ret.err>>; it is      *)
(* "initialized" once Init, "registered" once Register has returned regErr.*)
(*   registered  the parsers registered since the last Init, in order      *)
(*   regErr      what Init or Register returned                            *)
(*   orig        the request as it was handed to Parse                     *)
(*   invoked     the parser calls of this Parse call: node, parser,        *)
(*               request before and after, and what the parser returned    *)
(***************************************************************************)
Init ==
    /\ head = ParserChain.head
    /\ tail = ParserChain.tail
    /\ heap = ParserChain.heap
    /\ registered = <<>>
    /\ regErr = NilErr
    /\ pc = "idle"
    /\ p = NilNode
    /\ errs = <<>>
    /\ req = NoRequest
    /\ orig = NoRequest
    /\ invoked = <<>>
    /\ ret = NoReturn

call == <<p, errs, req, orig, invoked, ret>>

\* pc.Init()
CallInit ==
    /\ pc = "idle"
    /\ LET r == ChainInit(chain)
       IN  /\ head' = r.pc.head
           /\ tail' = r.pc.tail
           /\ heap' = r.pc.heap
           /\ regErr' = r.err
    /\ registered' = <<"NpmParser", "HarborParser">>
    /\ pc' = "initialized"
    /\ UNCHANGED call

\* pc.Register(parser)
CallRegister(parser) ==
    /\ pc = "idle"
    /\ parser = NilParser \/ Len(heap) < MaxChain
    /\ LET r == Register(chain, parser)
       IN  /\ head' = r.pc.head
           /\ tail' = r.pc.tail
           /\ heap' = r.pc.heap
           /\ regErr' = r.err
    /\ registered' = IF Register(chain, parser).err.isNil
                     THEN Append(registered, parser)
                     ELSE registered
    /\ pc' = "registered"
    /\ UNCHANGED call

\* Enter without the check for an empty chain.
EnterNoCheck(c) == [return |-> FALSE, p |-> c.head, ret |-> NoReturn]

\* The first lines of Parse: an empty chain is an error, else start at head.
Enter(c) ==
    IF c.head = NilNode
    THEN [return |-> TRUE, p |-> NilNode,
          ret |-> [meta |-> RequestMeta, err |-> NewError("no parsers")]]
    ELSE [return |-> FALSE, p |-> c.head, ret |-> NoReturn]

\* pc.Parse(r), up to the loop.
ParseEnter(r) ==
    /\ pc = "idle"
    /\ req' = r
    /\ orig' = r
    /\ invoked' = <<>>
    /\ errs' = <<>>
    /\ pc' = IF Enter(chain).return THEN "returned" ELSE "loop"
    /\ p' = Enter(chain).p
    /\ ret' = Enter(chain).ret
    /\ UNCHANGED <<head, tail, heap, registered, regErr>>

\* Turn that goes on after a hit while there is a next parser.
TurnLastHitWins(res, es, next) ==
    IF ~res.err.isNil
    THEN [return |-> FALSE, errs |-> Append(es, res.err.msg), p |-> next,
          ret |-> NoReturn]
    ELSE IF res.meta.HasHit /\ next = NilNode
         THEN [return |-> TRUE, errs |-> es, p |-> next,
               ret |-> [meta |-> res.meta, err |-> NilErr]]
         ELSE [return |-> FALSE, errs |-> es, p |-> next, ret |-> NoReturn]

\* Turn that returns the first error of a parser to the caller.
TurnAbortOnError(res, es, next) ==
    IF ~res.err.isNil
    THEN [return |-> TRUE, errs |-> es, p |-> next,
          ret |-> [meta |-> RequestMeta, err |-> res.err]]
    ELSE IF res.meta.HasHit
         THEN [return |-> TRUE, errs |-> es, p |-> next,
               ret |-> [meta |-> res.meta, err |-> NilErr]]
         ELSE [return |-> FALSE, errs |-> es, p |-> next, ret |-> NoReturn]

\* Turn that looks at HasHit before it looks at the error.
TurnHitBeforeError(res, es, next) ==
    IF res.meta.HasHit
    THEN [return |-> TRUE, errs |-> es, p |-> next,
          ret |-> [meta |-> res.meta, err |-> res.err]]
    ELSE IF ~res.err.isNil
         THEN [return |-> FALSE, errs |-> Append(es, res.err.msg), p |-> next,
               ret |-> NoReturn]
         ELSE [return |-> FALSE, errs |-> es, p |-> next, ret |-> NoReturn]

\* Turn that drops the error of a parser whose meta says HasHit.
TurnHitDropsError(res, es, next) ==
    IF res.meta.HasHit
    THEN [return |-> TRUE, errs |-> es, p |-> next,
          ret |-> [meta |-> res.meta, err |-> NilErr]]
    ELSE IF ~res.err.isNil
         THEN [return |-> FALSE, errs |-> Append(es, res.err.msg), p |-> next,
               ret |-> NoReturn]
         ELSE [return |-> FALSE, errs |-> es, p |-> next, ret |-> NoReturn]

\* What one turn of the loop does with what the parser returned: record the
\* error and go on, return the hit, or go on.
Turn(res, es, next) ==
    IF ~res.err.isNil
    THEN [return |-> FALSE, errs |-> Append(es, res.err.msg), p |-> next,
          ret |-> NoReturn]
    ELSE IF res.meta.HasHit
         THEN [return |-> TRUE, errs |-> es, p |-> next,
               ret |-> [meta |-> res.meta, err |-> NilErr]]
         ELSE [return |-> FALSE, errs |-> es, p |-> next, ret |-> NoReturn]

\* ParseLoop that calls a failed parser again instead of going to p.next.
ParseLoopRetry ==
    /\ pc = "loop"
    /\ p # NilNode /\ heap[p].parser # NilParser
    /\ LET res == Call(heap[p].parser, req)
           t == Turn(res, errs, heap[p].next)
       IN  /\ req' = res.req
           /\ invoked' = Append(invoked,
                                [node |-> p, parser |-> heap[p].parser,
                                 pre |-> req, post |-> res.req,
                                 meta |-> res.meta, err |-> res.err])
           /\ errs' = t.errs
           /\ pc' = IF t.return THEN "returned" ELSE "loop"
           /\ p' = IF t.return \/ ~res.err.isNil THEN p ELSE t.p
           /\ ret' = t.ret
    /\ UNCHANGED <<head, tail, heap, registered, regErr, orig>>

\* One turn of the loop: call p.parser, return on a hit, else go to p.next.
ParseLoop ==
    /\ pc = "loop"
    /\ p # NilNode /\ heap[p].parser # NilParser
    /\ LET res == Call(heap[p].parser, req)
           t == Turn(res, errs, heap[p].next)
       IN  /\ req' = res.req
           /\ invoked' = Append(invoked,
                                [node |-> p, parser |-> heap[p].parser,
                                 pre |-> req, post |-> res.req,
                                 meta |-> res.meta, err |-> res.err])
           /\ errs' = t.errs
           /\ pc' = IF t.return THEN "returned" ELSE "loop"
           /\ p' = IF t.return THEN p ELSE t.p
           /\ ret' = t.ret
    /\ UNCHANGED <<head, tail, heap, registered, regErr, orig>>

\* NoHit that reports the last error only.
NoHitLastOnly(es) ==
    NewError("no hit" \o ":" \o (IF es = <<>> THEN "" ELSE es[Len(es)]))

\* The error of a call that hit nothing.
NoHit(es) == NewError("no hit" \o ":" \o Join(es, ";"))

\* The loop is over with no hit.
ParseNoHit ==
    /\ pc = "loop"
    /\ ~(p # NilNode /\ heap[p].parser # NilParser)
    /\ pc' = "returned"
    /\ ret' = [meta |-> RequestMeta, err |-> NoHit(errs)]
    /\ UNCHANGED <<head, tail, heap, registered, regErr, p, errs, req, orig,
                   invoked>>

\* The caller has what Parse, Init or Register returned; the call's locals
\* and the request are dropped.
Return ==
    /\ pc \in {"returned", "initialized", "registered"}
    /\ pc' = "idle"
    /\ regErr' = NilErr
    /\ p' = NilNode
    /\ errs' = <<>>
    /\ req' = NoRequest
    /\ orig' = NoRequest
    /\ invoked' = <<>>
    /\ ret' = NoReturn
    /\ UNCHANGED <<head, tail, heap, registered>>

Next ==
    \/ CallInit
    \/ \E parser \in Parsers \cup {NilParser} : CallRegister(parser)
    \/ \E r \in Requests : ParseEnter(r)
    \/ ParseLoop
    \/ ParseNoHit
    \/ Return

Spec == Init /\ [][Next]_vars

(***************************************************************************)
(* Concurrent callers.  The chain is built while no Parse call runs, then  *)
(* the callers of Procs call Parse on it at the same time, each with its   *)
(* own request.  What Parse keeps in locals (p, errs, res, err) and the    *)
(* request of the call are one per caller: pc, p, errs, req, orig, invoked *)
(* and ret are functions over Procs.  head, tail and heap are the one      *)
(* chain all callers read.  A step is one turn of one caller's loop; the   *)
(* turns of the callers interleave in every order.                         *)
(***************************************************************************)
MaxSharedChain == 2

Procs == {"a", "b"}

\* Declined by NpmParser; an install; a publish; a publish that fails.
ConcRequests ==
    {NewRequest(Hdr("User-Agent", <<"c", "u", "r", "l">>), PlainURL, Manifest,
                TRUE, FALSE),
     NewRequest(NpmAgent @@ Hdr("Referer", CmdInstall), PlainURL, Manifest,
                TRUE, FALSE),
     NewRequest(NpmAgent @@ Hdr("Referer", CmdPublish), PlainURL, Manifest,
                TRUE, FALSE),
     NewRequest(NpmAgent @@ Hdr("Referer", CmdPublish), PlainURL, <<Bad>>,
                FALSE, FALSE)}

InitConc ==
    /\ head = ParserChain.head
    /\ tail = ParserChain.tail
    /\ heap = ParserChain.heap
    /\ registered = <<>>
    /\ regErr = NilErr
    /\ pc = [i \in Procs |-> "idle"]
    /\ p = [i \in Procs |-> NilNode]
    /\ errs = [i \in Procs |-> <<>>]
    /\ req = [i \in Procs |-> NoRequest]
    /\ orig = [i \in Procs |-> NoRequest]
    /\ invoked = [i \in Procs |-> <<>>]
    /\ ret = [i \in Procs |-> NoReturn]

\* pc.Init(), while no Parse call runs.
ConcInit ==
    /\ \A i \in Procs : pc[i] = "idle"
    /\ LET r == ChainInit(chain)
       IN  /\ head' = r.pc.head
           /\ tail' = r.pc.tail
           /\ heap' = r.pc.heap
           /\ regErr' = r.err
    /\ registered' = <<"NpmParser", "HarborParser">>
    /\ UNCHANGED <<pc, call>>

\* pc.Register(parser), while no Parse call runs.
ConcRegister(parser) ==
    /\ \A i \in Procs : pc[i] = "idle"
    /\ Len(heap) < MaxSharedChain
    /\ LET r == Register(chain, parser)
       IN  /\ head' = r.pc.head
           /\ tail' = r.pc.tail
           /\ heap' = r.pc.heap
           /\ regErr' = r.err
    /\ registered' = Append(registered, parser)
    /\ UNCHANGED <<pc, call>>

\* Caller i: pc.Parse(r), up to the loop.
ConcParseEnter(i, r) ==
    /\ pc[i] = "idle"
    /\ req' = [req EXCEPT ![i] = r]
    /\ orig' = [orig EXCEPT ![i] = r]
    /\ invoked' = [invoked EXCEPT ![i] = <<>>]
    /\ errs' = [errs EXCEPT ![i] = <<>>]
    /\ pc' = [pc EXCEPT ![i] = IF Enter(chain).return THEN "returned" ELSE "loop"]
    /\ p' = [p EXCEPT ![i] = Enter(chain).p]
    /\ ret' = [ret EXCEPT ![i] = Enter(chain).ret]
    /\ UNCHANGED <<head, tail, heap, registered, regErr>>

\* ConcParseLoop as if errs were one slice shared by the callers.
ConcParseLoopSharedErrs(i) ==
    /\ pc[i] = "loop"
    /\ p[i] # NilNode /\ heap[p[i]].parser # NilParser
    /\ LET res == Call(heap[p[i]].parser, req[i])
           t == Turn(res, errs[i], heap[p[i]].next)
       IN  /\ req' = [req EXCEPT ![i] = res.req]
           /\ invoked' = [invoked EXCEPT ![i] =
                            Append(invoked[i],
                                   [node |-> p[i], parser |-> heap[p[i]].parser,
                                    pre |-> req[i], post |-> res.req,
                                    meta |-> res.meta, err |-> res.err])]
           /\ errs' = [j \in Procs |-> t.errs]
           /\ pc' = [pc EXCEPT ![i] = IF t.return THEN "returned" ELSE "loop"]
           /\ p' = [p EXCEPT ![i] = IF t.return THEN p[i] ELSE t.p]
           /\ ret' = [ret EXCEPT ![i] = t.ret]
    /\ UNCHANGED <<head, tail, heap, registered, regErr, orig>>

\* Caller i: one turn of the loop.
ConcParseLoop(i) ==
    /\ pc[i] = "loop"
    /\ p[i] # NilNode /\ heap[p[i]].parser # NilParser
    /\ LET res == Call(heap[p[i]].parser, req[i])
           t == Turn(res, errs[i], heap[p[i]].next)
       IN  /\ req' = [req EXCEPT ![i] = res.req]
           /\ invoked' = [invoked EXCEPT ![i] =
                            Append(invoked[i],
                                   [node |-> p[i], parser |-> heap[p[i]].parser,
                                    pre |-> req[i], post |-> res.req,
                                    meta |-> res.meta, err |-> res.err])]
           /\ errs' = [errs EXCEPT ![i] = t.errs]
           /\ pc' = [pc EXCEPT ![i] = IF t.return THEN "returned" ELSE "loop"]
           /\ p' = [p EXCEPT ![i] = IF t.return THEN p[i] ELSE t.p]
           /\ ret' = [ret EXCEPT ![i] = t.ret]
    /\ UNCHANGED <<head, tail, heap, registered, regErr, orig>>

\* Caller i: the loop is over with no hit.
ConcParseNoHit(i) ==
    /\ pc[i] = "loop"
    /\ ~(p[i] # NilNode /\ heap[p[i]].parser # NilParser)
    /\ pc' = [pc EXCEPT ![i] = "returned"]
    /\ ret' = [ret EXCEPT ![i] = [meta |-> RequestMeta, err |-> NoHit(errs[i])]]
    /\ UNCHANGED <<head, tail, heap, registered, regErr, p, errs, req, orig,
                   invoked>>

\* Caller i has what Parse returned.
ConcReturn(i) ==
    /\ pc[i] = "returned"
    /\ pc' = [pc EXCEPT ![i] = "idle"]
    /\ p' = [p EXCEPT ![i] = NilNode]
    /\ errs' = [errs EXCEPT ![i] = <<>>]
    /\ req' = [req EXCEPT ![i] = NoRequest]
    /\ orig' = [orig EXCEPT ![i] = NoRequest]
    /\ invoked' = [invoked EXCEPT ![i] = <<>>]
    /\ ret' = [ret EXCEPT ![i] = NoReturn]
    /\ UNCHANGED <<head, tail, heap, registered, regErr>>

NextConc ==
    \/ ConcInit
    \/ \E parser \in Parsers : ConcRegister(parser)
    \/ \E i \in Procs : \E r \in ConcRequests : ConcParseEnter(i, r)
    \/ \E i \in Procs : ConcParseLoop(i)
    \/ \E i \in Procs : ConcParseNoHit(i)
    \/ \E i \in Procs : ConcReturn(i)

SpecConc == InitConc /\ [][NextConc]_vars

\* Parse run from node to its end by one caller with no other caller about:
\* the request as the call leaves it, and what the call returns.
RECURSIVE RunAlone(_, _, _, _)
RunAlone(c, node, r, es) ==
    IF ~(node # NilNode /\ c.heap[node].parser # NilParser)
    THEN [req |-> r, ret |-> [meta |-> RequestMeta, err |-> NoHit(es)]]
    ELSE LET res == Call(c.heap[node].parser, r)
             t == Turn(res, es, c.heap[node].next)
         IN  IF t.return
             THEN [req |-> res.req, ret |-> t.ret]
             ELSE RunAlone(c, t.p, res.req, t.errs)

ParseAlone(c, r) ==
    IF Enter(c).return
    THEN [req |-> r, ret |-> Enter(c).ret]
    ELSE RunAlone(c, Enter(c).p, r, <<>>)

(***************************************************************************)
(* Properties.                                                             *)
(***************************************************************************)
Matched(e) == e.err.isNil /\ e.meta.HasHit

Errored(e) == ~e.err.isNil

DefaultChain == <<"NpmParser", "HarborParser">>

UserAgentOf(r) == HeaderGet(r.Header, "User-Agent")

RefererOf(r) == HeaderGet(r.Header, "Referer")

\* r is an npm request whose command is "publish".
IsPublish(r) ==
    /\ Contains(UserAgentOf(r), NpmMarker)
    /\ RefererOf(r) # <<>>
    /\ TrimSpace(Split(RefererOf(r), " ")[1]) = CmdPublish

\* The bytes a full read of the body yields.
Remaining(body) == Bytes(SubSeq(body.data, body.pos + 1, Len(body.data)))

BodyParses(r) ==
    /\ ~r.Body.broken
    /\ Unmarshal(SubSeq(r.Body.data, r.Body.pos + 1, Len(r.Body.data))).err.isNil

BodyMalformed(r) ==
    /\ ~r.Body.broken
    /\ ~Unmarshal(SubSeq(r.Body.data, r.Body.pos + 1, Len(r.Body.data))).err.isNil

\* The number a decimal string stands for.
DigitValue(c) == CHOOSE d \in 0..9 : Digit(d) = c

RECURSIVE Atoi(_)
Atoi(s) ==
    IF Len(s) = 0 THEN 0
    ELSE 10 * Atoi(SubSeq(s, 1, Len(s) - 1)) + DigitValue(s[Len(s)])

\* The messages of the parser calls that returned an error, in call order.
RECURSIVE ErrorsOf(_)
ErrorsOf(log) ==
    IF log = <<>> THEN <<>>
    ELSE (IF Errored(Head(log)) THEN <<Head(log).err.msg>> ELSE <<>>)
         \o ErrorsOf(Tail(log))

\* C1: first match wins.  The parsers are called in registration order; a
\* call that matched (HasHit, nil error) is the last call, Parse has
\* returned that call's meta with a nil error, and so no parser registered
\* after it is called; and Parse returns a nil error only that way.
C1_FirstMatchWins ==
    /\ \A j \in 1..Len(invoked) :
          /\ j <= Len(registered)
          /\ invoked[j].parser = registered[j]
          /\ Matched(invoked[j]) =>
                /\ j = Len(invoked)
                /\ pc = "returned"
                /\ ret = [meta |-> invoked[j].meta, err |-> NilErr]
    /\ (pc = "returned" /\ ret.err.isNil) =>
          /\ Len(invoked) > 0
          /\ Matched(invoked[Len(invoked)])

\* [A declines, B matches, C]: B's result, C not called.
C1_Witness ==
    /\ pc = "returned"
    /\ registered = <<"DeclineParser", "MatchParser", "HarborParser">>
    /\ Len(invoked) = 2
    /\ ret.meta.RegistryType = "custom"

\* C2: on the chain Init builds (npm, then the fallback), Parse returns
\* HasHit with a nil error for every request, and the fallback never
\* returns an error nor HasHit = FALSE.
C2_DefaultChainAlwaysHits ==
    /\ (pc = "returned" /\ registered = DefaultChain) =>
          ret.err.isNil /\ ret.meta.HasHit
    /\ \A j \in 1..Len(invoked) :
          invoked[j].parser = "HarborParser" =>
              invoked[j].err.isNil /\ invoked[j].meta.HasHit

\* The default chain, a publish whose body cannot be read.
C2_Witness ==
    /\ pc = "returned"
    /\ registered = DefaultChain
    /\ IsPublish(orig)
    /\ orig.Body.broken
    /\ Len(invoked) = 2
    /\ Errored(invoked[1])

\* C3: partial failure.  Every error a parser returns is recorded, in order;
\* Parse does not return because of it while parsers are left; the caller
\* sees an error only when no parser matched, and a later match is returned
\* with a nil error.
C3_PartialFailure ==
    /\ pc \in {"loop", "returned"} => errs = ErrorsOf(invoked)
    /\ \A j \in 1..Len(invoked) :
          (Errored(invoked[j]) /\ j = Len(invoked) /\ pc = "returned") =>
              Len(invoked) = Len(registered)
    /\ (pc = "returned" /\ ~ret.err.isNil /\ registered # <<>>) =>
          /\ Len(invoked) = Len(registered)
          /\ \A j \in 1..Len(invoked) : ~Matched(invoked[j])
    /\ (pc = "returned" /\ \E j \in 1..Len(invoked) : Matched(invoked[j])) =>
          ret.err.isNil

\* A parser failed, a later one matched, Parse returned the match.
C3_Witness ==
    /\ pc = "returned"
    /\ Len(invoked) = 3
    /\ Errored(invoked[1])
    /\ Errored(invoked[2])
    /\ ret.err.isNil
    /\ ret.meta = invoked[3].meta

\* C4: body round trip.  When NpmParser has run on a publish request whose
\* body parses, a full read of the body yields the bytes the body held
\* before, and ContentLength and the Content-Length header are the number
\* of those bytes.
C4_BodyRoundTrip ==
    \A j \in 1..Len(invoked) :
        LET e == invoked[j]
        IN  (e.parser = "NpmParser" /\ IsPublish(e.pre) /\ BodyParses(e.pre)) =>
                /\ ~e.post.Body.broken
                /\ Remaining(e.post.Body) = Remaining(e.pre.Body)
                /\ e.post.ContentLength = Len(Remaining(e.pre.Body))
                /\ "Content-Length" \in DOMAIN e.post.Header
                /\ Atoi(e.post.Header["Content-Length"]) = Len(Remaining(e.pre.Body))

\* A publish of the manifest that came without a length.
C4_Witness ==
    /\ Len(invoked) > 0
    /\ invoked[1].parser = "NpmParser"
    /\ IsPublish(invoked[1].pre)
    /\ invoked[1].pre.Body.data = Manifest
    /\ invoked[1].pre.ContentLength = 0 - 1
    /\ Matched(invoked[1])

\* C5: body preserved on publish failure.  When NpmParser has run on a
\* publish request whose body is malformed, a full read of the body still
\* yields the bytes the body held before.
C5_BodyPreservedOnFailure ==
    \A j \in 1..Len(invoked) :
        LET e == invoked[j]
        IN  (e.parser = "NpmParser" /\ IsPublish(e.pre) /\ BodyMalformed(e.pre)) =>
                /\ Errored(e)
                /\ Remaining(e.post.Body) = Remaining(e.pre.Body)

\* C6: a publish with a malformed body.  On the default chain NpmParser
\* fails, HarborParser is called next, and Parse returns its hit with a nil
\* error; on a chain of NpmParser alone Parse fails with the no-hit error.
C6_MalformedPublish ==
    (pc = "returned" /\ IsPublish(orig) /\ BodyMalformed(orig)) =>
        /\ registered = DefaultChain =>
              /\ Len(invoked) = 2
              /\ invoked[1].parser = "NpmParser"
              /\ Errored(invoked[1])
              /\ invoked[2].parser = "HarborParser"
              /\ ret = [meta |-> [RegistryType |-> "harbor", HasHit |-> TRUE,
                                  Metadata |-> <<>>],
                        err |-> NilErr]
        /\ registered = <<"NpmParser">> =>
              /\ Len(invoked) = 1
              /\ Errored(invoked[1])
              /\ ret = [meta |-> RequestMeta,
                        err |-> NewError("no hit:" \o invoked[1].err.msg)]

\* The chain of NpmParser alone, a publish whose body is not JSON.
C6_Witness ==
    /\ pc = "returned"
    /\ IsPublish(orig)
    /\ orig.Body.data = <<Bad>>
    /\ registered = <<"NpmParser">>
    /\ ret.err.msg = "no hit:invalid character"

\* C7: a request without the npm marker in its User-Agent.  NpmParser
\* returns HasHit = FALSE and a nil error, and the default chain returns the
\* fallback's result, of registry type image.
C7_NotNpmFallsThrough ==
    /\ \A j \in 1..Len(invoked) :
          (invoked[j].parser = "NpmParser"
              /\ ~Contains(UserAgentOf(invoked[j].pre), NpmMarker)) =>
                  /\ invoked[j].err.isNil
                  /\ ~invoked[j].meta.HasHit
    /\ (pc = "returned" /\ registered = DefaultChain
           /\ ~Contains(UserAgentOf(orig), NpmMarker)) =>
          /\ Len(invoked) = 2
          /\ ret.err.isNil
          /\ ret.meta.HasHit
          /\ ret.meta.RegistryType = registryTypeImage

\* A client that is not npm (its User-Agent lacks the marker) and that
\* sends an invocation string "publish".
C7_Witness ==
    /\ pc = "returned"
    /\ registered = DefaultChain
    /\ UserAgentOf(orig) = <<"n", "m", "p">>
    /\ RefererOf(orig) = CmdPublish
    /\ ret.meta.RegistryType = "harbor"

\* C8: exhaustion.  When Parse has returned from a non-empty chain and no
\* parser matched, every parser was called and the error is "no hit:"
\* followed by the messages of the parsers that failed, in registration
\* order, joined by ";"; with no failure it is "no hit:" alone.
C8_Exhaustion ==
    (pc = "returned" /\ registered # <<>>
        /\ \A j \in 1..Len(invoked) : ~Matched(invoked[j])) =>
            /\ Len(invoked) = Len(registered)
            /\ ret.meta = RequestMeta
            /\ ~ret.err.isNil
            /\ ret.err.msg = "no hit:" \o Join(ErrorsOf(invoked), ";")
            /\ (\A j \in 1..Len(invoked) : ~Errored(invoked[j])) =>
                  ret.err.msg = "no hit:"

\* Two different failures around a parser that declines.
C8_Witness ==
    /\ pc = "returned"
    /\ registered = <<"FailHitParser", "DeclineParser", "FailParser">>
    /\ ret.err.msg = "no hit:half parsed;cannot parse"

\* C9: Parse on a chain with no parser registered returns the zero meta and
\* the error "no parsers", which is not the no-hit error; no parser is
\* called and the request is as it was.
C9_EmptyChain ==
    /\ (pc = "returned" /\ registered = <<>>) =>
          /\ ret = [meta |-> RequestMeta, err |-> NewError("no parsers")]
          /\ invoked = <<>>
          /\ req = orig
    /\ (pc = "returned" /\ ret.err.msg = "no parsers") => registered = <<>>

\* The empty chain, a publish request.
C9_Witness ==
    /\ pc = "returned"
    /\ registered = <<>>
    /\ IsPublish(orig)
    /\ ret.err.msg = "no parsers"

\* C10: Register(nil) returns the error "nil parser" and leaves the chain as
\* it was: head, tail and every node.
C10_RegisterNil ==
    [][CallRegister(NilParser) =>
          /\ regErr' = NewError("nil parser")
          /\ UNCHANGED <<head, tail, heap, registered>>]_vars

\* Register(nil) was refused on a chain of three parsers.
C10_Witness ==
    /\ regErr = NewError("nil parser")
    /\ Len(heap) = 3
    /\ registered = <<"MatchParser", "NpmParser", "FailParser">>

\* C11: Register appends.  The parsers Parse walks from head are the
\* parsers registered since the last Init (its two defaults first), in the
\* order of the calls; the walk ends (no cycle) and tail is its last node.
\* A successful Register puts its parser at the end of that walk and keeps
\* what was there.
C11_AppendOnly ==
    /\ [](/\ Walk(chain, head, Len(heap) + 1) = registered
          /\ (head = NilNode) = (tail = NilNode)
          /\ tail # NilNode => heap[tail].next = NilNode)
    /\ [][\A parser \in Parsers :
            CallRegister(parser) =>
                Walk(chain', head', Len(heap') + 1)
                    = Append(Walk(chain, head, Len(heap) + 1), parser)]_vars

\* Init, then one more Register.
C11_Witness ==
    /\ pc = "registered"
    /\ regErr = NilErr
    /\ Walk(chain, head, Len(heap) + 1)
           = <<"NpmParser", "HarborParser", "DeclineParser">>

\* C12: Init from any chain returns a nil error and leaves exactly two
\* nodes, NpmParser then HarborParser; the chain it leaves does not depend
\* on the chain it found, so a second Init changes nothing.
C12_InitResets ==
    [][CallInit =>
          /\ regErr' = NilErr
          /\ Walk(chain', head', Len(heap') + 1) = <<"NpmParser", "HarborParser">>
          /\ head' # NilNode
          /\ tail' = heap'[head'].next
          /\ heap'[tail'].next = NilNode
          /\ (Walk(chain, head, Len(heap) + 1) = <<"NpmParser", "HarborParser">>
                 => chain' = chain)]_vars

\* Init has returned.
C12_Witness ==
    /\ pc = "initialized"
    /\ regErr = NilErr
    /\ Walk(chain, head, Len(heap) + 1) = <<"NpmParser", "HarborParser">>

\* C13: concurrent Parse calls are safe.  With several callers in Parse on
\* the same chain at once, each with its own request, under every
\* interleaving of their turns: at every point of a call, what remains of
\* it run alone ends as the whole call run alone on its request would, so a
\* call that has returned has returned that result and left its request
\* as the call alone would; and no step of Parse changes the chain.
C13_ConcurrentParseSafe ==
    /\ [](\A i \in Procs :
            /\ pc[i] = "loop" =>
                  RunAlone(chain, p[i], req[i], errs[i])
                      = ParseAlone(chain, orig[i])
            /\ pc[i] = "returned" =>
                  [req |-> req[i], ret |-> ret[i]] = ParseAlone(chain, orig[i]))
    /\ [](Walk(chain, head, Len(heap) + 1) = registered)
    /\ [][(\E i \in Procs :
              \/ \E r \in ConcRequests : ConcParseEnter(i, r)
              \/ ConcParseLoop(i)
              \/ ConcParseNoHit(i)
              \/ ConcReturn(i))
          => /\ chain' = chain
             /\ registered' = registered]_vars

\* Both callers are in the loop after one call each, one with the error of
\* the publish that failed, the other with none.
C13_Witness ==
    /\ registered = DefaultChain
    /\ pc["a"] = "loop" /\ pc["b"] = "loop"
    /\ Len(invoked["a"]) = 1 /\ Len(invoked["b"]) = 1
    /\ errs["a"] = <<"invalid character">>
    /\ errs["b"] = <<>>

\* The invocation string cut at its first whitespace character: what is
\* before it, and what is after it.
FirstSpace(s) ==
    LET at == {i \in 1..Len(s) : s[i] \in Space}
    IN  IF at = {} THEN Len(s) + 1
        ELSE CHOOSE i \in at : \A j \in at : i <= j

FirstToken(s) == SubSeq(s, 1, FirstSpace(s) - 1)

Remainder(s) == SubSeq(s, FirstSpace(s) + 1, Len(s))

\* C14: command parsing.  When NpmParser matches a request, command is the
\* invocation string up to its first whitespace character, trimmed, and for
\* a command other than "publish" extra is what follows it, trimmed.
C14_CommandParsing ==
    \A j \in 1..Len(invoked) :
        LET e == invoked[j]
            s == RefererOf(e.pre)
        IN  (e.parser = "NpmParser" /\ Contains(UserAgentOf(e.pre), NpmMarker)
                /\ s # <<>> /\ Matched(e)) =>
                /\ e.meta.Metadata.command = TrimSpace(FirstToken(s))
                /\ TrimSpace(FirstToken(s)) # CmdPublish =>
                      e.meta.Metadata.extra = TrimSpace(Remainder(s))

\* C15: an npm request with no invocation string is declined, not failed:
\* NpmParser returns the zero meta and a nil error; and NpmParser returns
\* HasHit only for a request with the marker and an invocation string.
C15_NoCommandDeclines ==
    \A j \in 1..Len(invoked) :
        LET e == invoked[j]
        IN  e.parser = "NpmParser" =>
                /\ (Contains(UserAgentOf(e.pre), NpmMarker)
                       /\ RefererOf(e.pre) = <<>>) =>
                      e.err.isNil /\ e.meta = RequestMeta
                /\ e.meta.HasHit =>
                      /\ Contains(UserAgentOf(e.pre), NpmMarker)
                      /\ RefererOf(e.pre) # <<>>

\* The npm client without a Referer, on a chain of NpmParser alone.
C15_Witness ==
    /\ pc = "returned"
    /\ registered = <<"NpmParser">>
    /\ Contains(UserAgentOf(orig), NpmMarker)
    /\ "Referer" \notin DOMAIN orig.Header
    /\ ret.err.msg = "no hit:"

\* C16: publish overwrite.  For a publish request whose body parses,
\* NpmParser matches with extra the dist-tags.latest of the manifest, and
\* command, path and session as for any command; for a command other than
\* "publish" extra comes from the invocation string.
C16_PublishOverwrite ==
    \A j \in 1..Len(invoked) :
        LET e == invoked[j]
            s == RefererOf(e.pre)
            body == SubSeq(e.pre.Body.data, e.pre.Body.pos + 1,
                           Len(e.pre.Body.data))
        IN  e.parser = "NpmParser" =>
                /\ (IsPublish(e.pre) /\ BodyParses(e.pre)) =>
                      /\ Matched(e)
                      /\ e.meta.RegistryType = "npm"
                      /\ e.meta.Metadata.extra = Unmarshal(body).v.Tags.Latest
                      /\ body = Manifest => e.meta.Metadata.extra = Version
                      /\ e.meta.Metadata.command = CmdPublish
                      /\ e.meta.Metadata.path = URLString(e.pre.URL)
                      /\ e.meta.Metadata.session
                             = HeaderGet(e.pre.Header, "Npm-Session")
                /\ (Matched(e) /\ e.meta.Metadata.command # CmdPublish) =>
                      e.meta.Metadata.extra
                          = TrimSpace(TrimPrefix(s, e.meta.Metadata.command))

\* "publish pkg" with the manifest: extra is the version, not "pkg".
C16_Witness ==
    /\ Len(invoked) > 0
    /\ invoked[1].parser = "NpmParser"
    /\ RefererOf(invoked[1].pre) = CmdPublish \o <<" ", "p", "k", "g">>
    /\ invoked[1].pre.Body.data = Manifest
    /\ invoked[1].meta.Metadata.extra = Version

\* The two ways a Parse call ends.
EndsMatched ==
    /\ Len(invoked) > 0
    /\ Matched(invoked[Len(invoked)])
    /\ ret = [meta |-> invoked[Len(invoked)].meta, err |-> NilErr]

EndsExhausted ==
    /\ Len(invoked) = Len(registered)
    /\ \A j \in 1..Len(invoked) : ~Matched(invoked[j])
    /\ ~ret.err.isNil

\* The k-th node of the walk from head, NilNode past its end.
RECURSIVE NodeAt(_, _)
NodeAt(node, k) ==
    IF node = NilNode \/ k <= 1 THEN node ELSE NodeAt(heap[node].next, k - 1)

\* C17: the state machine of one Parse call on a chain of n parsers.  The
\* calls follow registration order, no node is called twice (no retry) and
\* there are at most n calls; in the loop, after k calls Parse stands at
\* node k + 1 of the chain, which is nil or a node holding a parser that can
\* be called, so each step of the loop is one more call or the return and
\* the call ends after at most n + 1 steps; it ends in exactly one of
\* Matched and Exhausted.
C17_CallStateMachine ==
    /\ [](/\ Len(invoked) <= Len(registered)
          /\ \A j \in 1..Len(invoked) :
                /\ invoked[j].parser = registered[j]
                /\ invoked[j].node = NodeAt(head, j)
                /\ \A k \in 1..Len(invoked) :
                      invoked[j].node = invoked[k].node => j = k
          /\ pc = "loop" =>
                /\ p = NodeAt(head, Len(invoked) + 1)
                /\ p # NilNode =>
                      p \in 1..Len(heap) /\ heap[p].parser \in Parsers
                /\ p = NilNode => Len(invoked) = Len(registered)
          /\ pc = "returned" => (EndsMatched # EndsExhausted))
    /\ [][pc = "loop" =>
            \/ pc' = "returned"
            \/ pc' = "loop" /\ Len(invoked') = Len(invoked) + 1]_vars

\* Three parsers called, none matched.
C17_Witness ==
    /\ pc = "returned"
    /\ Len(registered) = 3
    /\ Len(invoked) = 3
    /\ EndsExhausted

\* C18: what Parse returns agrees.  The error is nil exactly when the meta
\* has HasHit, and with an error the meta is the zero value, also when the
\* parser that failed had filled in its meta.
C18_ReturnsAgree ==
    pc = "returned" =>
        /\ ret.err.isNil = ret.meta.HasHit
        /\ ~ret.err.isNil => ret.meta = RequestMeta

\* The last parser failed with HasHit set in its meta.
C18_Witness ==
    /\ pc = "returned"
    /\ registered = <<"DeclineParser", "FailHitParser">>
    /\ Len(invoked) = 2
    /\ invoked[2].meta.HasHit
    /\ ret.meta = RequestMeta
    /\ ret.err.msg = "no hit:half parsed"

\* C19: a parser that returns an error together with a meta that has HasHit
\* has failed: its message is recorded, Parse does not return its meta, and
\* Parse goes on to the next parser (or, after the last one, to the no-hit
\* error).
C19_ErrorBeatsHit ==
    \A j \in 1..Len(invoked) :
        LET e == invoked[j]
            mine == ErrorsOf(SubSeq(invoked, 1, j))
        IN  (Errored(e) /\ e.meta.HasHit) =>
                /\ Len(errs) >= Len(mine)
                /\ errs[Len(mine)] = e.err.msg
                /\ pc = "returned" => ret.meta # e.meta
                /\ (j = Len(invoked) /\ pc = "loop") => p = heap[e.node].next
                /\ (j = Len(invoked) /\ pc = "returned") =>
                      /\ heap[e.node].next = NilNode
                      /\ ret = [meta |-> RequestMeta,
                                err |-> NewError("no hit:" \o Join(errs, ";"))]

\* The failing parser with HasHit, then one that matches.
C19_Witness ==
    /\ pc = "returned"
    /\ registered = <<"FailHitParser", "MatchParser">>
    /\ Len(invoked) = 2
    /\ ret.meta.RegistryType = "custom"
    /\ ret.err.isNil

\* C20: the request is touched on the publish path only.  A call of
\* HarborParser, and a call of NpmParser on a request that is not a publish
\* (declined, or matched with another command), leaves the request as it
\* was: body unread, ContentLength and headers the same.
C20_RequestUntouched ==
    \A j \in 1..Len(invoked) :
        LET e == invoked[j]
        IN  /\ e.parser = "HarborParser" => e.post = e.pre
            /\ (e.parser = "NpmParser" /\ ~IsPublish(e.pre)) => e.post = e.pre
            /\ (e.parser = "NpmParser" /\ e.err.isNil
                   /\ (~e.meta.HasHit \/ e.meta.Metadata.command # CmdPublish)) =>
                  e.post = e.pre

\* NpmParser matched an install on a request that came with a body.
C20_Witness ==
    /\ pc = "returned"
    /\ Len(invoked) = 1
    /\ invoked[1].parser = "NpmParser"
    /\ RefererOf(orig) = CmdInstall
    /\ Matched(invoked[1])
    /\ orig.Body.data = Manifest
    /\ req.Body.pos = 0
    /\ req = orig

====
